---- MODULE Spec2Model ----
(***************************************************************************)
(* Model of the is_default crate (nujievik/is-default-rs).                 *)
(*                                                                         *)
(* The crate is one trait, IsDefault, with one method is_default(&self),   *)
(* implemented per type by small macros.  Two machines are modelled:       *)
(*                                                                         *)
(*   SpecPure  the implementations that are functions of the receiver's    *)
(*             value (numbers, strings, containers, slices, tuples,        *)
(*             pointers, derived structs and enums), applied to inputs     *)
(*             drawn from bounded sets;                                    *)
(*   Spec      the implementations that read shared state (Mutex, RwLock,  *)
(*             RefCell, rc::Weak, sync::Weak), called by several execution *)
(*             contexts that also lock, store, panic, clone and drop.      *)
(***************************************************************************)
EXTENDS Integers, Sequences, FiniteSets, TLC

\* ------------------------------------------------------------------------
\* Bounds of the model
\* ------------------------------------------------------------------------
MaxLen == 3
MaxFields == 3
NumCtx == 2
MaxShared == 1
MaxStrong == 2
MaxWeak == 2
MaxDepth == 3

\* tuple_impls!(K J I H G F E D C B A T): twelve type parameters
MaxTupleArity == 12

\* ------------------------------------------------------------------------
\* Values.  Every Rust value is a record [ty, n, items]: ty names the type,
\* n is its scalar part, items its components.
\* ------------------------------------------------------------------------
Val(ty, n, items) == [ty |-> ty, n |-> n, items |-> items]

SeqsOf(S, k) == UNION {[1..m -> S] : m \in 0..k}

\* Floating-point values are named by class; n indexes this list.
FloatClasses == <<"+0.0", "-0.0", "1.0", "1.1", "NaN", "+inf", "-inf", "MIN", "MAX">>

FloatIdx(c) == CHOOSE i \in 1..Len(FloatClasses) : FloatClasses[i] = c

\* IEEE-754 equality (`==` of f32/f64): NaN equals nothing, the two zeros
\* are equal, every other class equals only itself.
FloatEq(a, b) ==
    /\ a # "NaN"
    /\ b # "NaN"
    /\ \/ a = b
       \/ {a, b} = {"+0.0", "-0.0"}

IntTypes == {"u8", "i16"}
FloatTypes == {"f32"}
StrTypes == {"str", "String", "CStr", "CString", "OsStr", "OsString"}
PathTypes == {"Path", "PathBuf"}
CollectionTypes == {"BTreeSet", "BinaryHeap", "HashSet", "LinkedList", "Vec", "VecDeque"}
MapTypes == {"BTreeMap", "HashMap"}
DerefTypes == {"Arc", "Box", "Rc"}
OnceTypes == {"OnceCell", "OnceLock"}
\* the containers whose elements are unique (set elements, map keys)
UniqueTypes == {"BTreeSet", "HashSet"} \cup MapTypes
RefTypes == {"Ref", "RefMut"}

Unit == Val("unit", 0, <<>>)
Bool(b) == Val("bool", IF b THEN 1 ELSE 0, <<>>)
Char(c) == Val("char", c, <<>>)
IntVal(ty, v) == Val(ty, v, <<>>)
U8(v) == IntVal("u8", v)
I16(v) == IntVal("i16", v)
F32(c) == Val("f32", FloatIdx(c), <<>>)
None == Val("Option", 0, <<>>)
Some(v) == Val("Option", 0, <<v>>)
Wrap(ty, v) == Val(ty, 0, <<v>>)

\* RefCell borrow flag: -1 while a RefMut is outstanding, k >= 0 while k
\* shared Refs are outstanding.
RefCellOf(flag, v) == Val("RefCell", flag, <<v>>)
CursorOf(pos, inner) == Val("Cursor", pos, <<inner>>)

\* ------------------------------------------------------------------------
\* Derived aggregate types (#[derive(IsDefault)]).  A struct value carries
\* its fields in declaration order.  An enum value carries the index of its
\* active variant in n and that variant's fields in items; the declaration
\* of the enum is looked up by type name.
\* ------------------------------------------------------------------------
EnumDecls ==
    [ A |-> [marker |-> "is_default", marked |-> 1, variants |-> 2],
      B |-> [marker |-> "default",    marked |-> 2, variants |-> 2],
      M |-> [marker |-> "is_default", marked |-> 1, variants |-> 2],
      D |-> [marker |-> "default",    marked |-> 1, variants |-> 2],
      C |-> [marker |-> "none",       marked |-> 0, variants |-> 2] ]

EnumTypes == DOMAIN EnumDecls

\* impl Default for C { fn default() -> C { C::X(0) } }
EnumDefault(ty) == Val(ty, 1, <<U8(0)>>)

\* ------------------------------------------------------------------------
\* IsDefault implementations
\* ------------------------------------------------------------------------
RECURSIVE IsDefault(_)

\* unit_impl!: always true
unit_impl(x) == TRUE

\* matches!(self, v) with v taken as a binding, which matches every value
matches_impl_binding(x, v) == TRUE

\* matches_impl!($t, $v): matches!(self, $v) for bool, char and integers
matches_impl(x, v) == x.n = v

\* the float compared by its bits: self.to_bits() == 0
matches_impl_float_bits(x) == FloatClasses[x.n] = "+0.0"

\* matches_impl!(f32, 0f32): a float literal pattern matches by `==`
matches_impl_float(x) == FloatEq(FloatClasses[x.n], "+0.0")

\* a container compared element by element, as a slice is
is_empty_impl_all(x) == \A i \in 1..Len(x.items) : IsDefault(x.items[i])

\* is_empty_impl!, is_empty_impl_t!, is_empty_impl_k_v!: self.is_empty()
is_empty_impl(x) == Len(x.items) = 0

\* path_impl!: self.as_os_str().is_empty()
path_impl(x) == Len(x.items) = 0

\* a reference treated as a marker type: unit_impl! in place of ref_impl!
ref_impl_unit(x) == TRUE

\* ref_impl!(&T), ref_impl!(&mut T): (**self).is_default()
ref_impl(x) == IsDefault(x.items[1])

\* the pointee read as a scalar instead of being asked for is_default
deref_impl_t_scalar(x) == x.items[1].n = 0

\* deref_impl_t!(Arc | Box | Rc), Cow: (**self).is_default()
deref_impl_t(x) == IsDefault(x.items[1])

\* a slice treated as a container: self.is_empty()
slice_is_empty(items) == Len(items) = 0

\* impl IsDefault for [T]
slice_is_default(items) ==
    IF Len(items) = 0
    THEN TRUE
    ELSE \A i \in 1..Len(items) : IsDefault(items[i])

\* impl IsDefault for [T; N]: self.as_slice().is_default()
array_is_default(x) == slice_is_default(x.items)

\* tuple_impls!: unit_impl!(()) for the empty list, otherwise
\* $T.is_default() $( && $Ts.is_default() )* over the k components.
\* the && chain one component short
tuple_and_drop_last(items, i) ==
    \A j \in i..(Len(items) - 1) : IsDefault(items[j])

RECURSIVE tuple_and(_, _)
tuple_and(items, i) ==
    IF i > Len(items)
    THEN TRUE
    ELSE IsDefault(items[i]) /\ tuple_and(items, i + 1)

tuple_impls(x) ==
    IF Len(x.items) = 0
    THEN unit_impl(x)
    ELSE tuple_and(x.items, 1)

\* impl IsDefault for Wrapping<T>: self.0.is_default()
wrapping_is_default(x) == IsDefault(x.items[1])

\* impl IsDefault for Duration: self.is_zero()
duration_is_default(x) == x.n = 0

\* impl IsDefault for Option<T>: self.is_none()
option_is_default(x) == Len(x.items) = 0

\* WouldBlock counted as default: contention is not reported
lock_impl_would_block_true(acquired, v) ==
    IF acquired = "Ok" THEN IsDefault(v) ELSE acquired = "WouldBlock"

\* map_or(true, ..): an acquisition error counted as default
lock_impl_err_true(acquired, v) ==
    IF acquired = "Ok" THEN IsDefault(v) ELSE TRUE

\* the guard taken out of a poison error and used as if the lock were sound
lock_impl_poison_ok(acquired, v) ==
    IF acquired \in {"Ok", "Poisoned"} THEN IsDefault(v) ELSE FALSE

\* lock_impl!: self.$lock().map_or(false, |v| v.is_default())
lock_impl(acquired, v) ==
    IF acquired = "Ok" THEN IsDefault(v) ELSE FALSE

\* RefCell::borrow: panics while mutably borrowed
borrow_or_panic(flag) == IF flag < 0 THEN "Panic" ELSE "Ok"

\* RefCell::try_borrow: Err(BorrowError) while mutably borrowed
try_borrow(flag) == IF flag < 0 THEN "BorrowError" ELSE "Ok"

\* impl IsDefault for Cell<T>: self.get().is_default()
cell_is_default(x) == IsDefault(x.items[1])

\* a cell holding the default value of T counted as default
once_impl_value(x) == Len(x.items) = 0 \/ IsDefault(x.items[1])

\* once_impl!(OnceCell | OnceLock): matches!(self.get(), None)
once_impl(x) == Len(x.items) = 0

\* Cursor compared as its derived PartialEq does: buffer and position
cursor_is_default_inner(x) == x.n = 0 /\ IsDefault(x.items[1])

\* impl IsDefault for Cursor<T>: matches!(self.position(), 0u64)
cursor_is_default(x) == x.n = 0

\* #[derive(IsDefault)] on a struct: every field, in declaration order,
\* combined with &&; a struct without fields is always default.
derive_struct(fields) ==
    \A i \in 1..Len(fields) : IsDefault(fields[i])

\* #[derive(IsDefault)] on an enum with a variant marked #[is_default] or
\* #[default]: the active variant is the marked one and its fields are
\* default.
derive_enum_marked(decl, x) ==
    IF x.n # decl.marked
    THEN FALSE
    ELSE derive_struct(x.items)

\* PartialEq: structural equality, `==` of floats on float leaves.
RECURSIVE PartialEq(_, _)
PartialEq(a, b) ==
    /\ a.ty = b.ty
    /\ IF a.ty \in FloatTypes
       THEN FloatEq(FloatClasses[a.n], FloatClasses[b.n])
       ELSE IF a.ty = "RefCell" THEN TRUE ELSE a.n = b.n
    /\ Len(a.items) = Len(b.items)
    /\ \A i \in 1..Len(a.items) : PartialEq(a.items[i], b.items[i])

\* RefCell's PartialEq is *self.borrow() == *other.borrow(): borrow()
\* panics while the cell is mutably borrowed.
RECURSIVE EqPanics(_)
EqPanics(a) ==
    \/ a.ty = "RefCell" /\ a.n < 0
    \/ \E i \in 1..Len(a.items) : EqPanics(a.items[i])

\* Default::default() of the type of x.
RECURSIVE DefaultOf(_)
DefaultOf(x) ==
    CASE x.ty \in EnumTypes -> EnumDefault(x.ty)
      [] x.ty = "f32" -> F32("+0.0")
      [] x.ty \in {"Array", "Tuple"} \cup DerefTypes \cup {"Cell", "RefCell", "Cursor", "Wrapping"} ->
            Val(x.ty, 0, [i \in 1..Len(x.items) |-> DefaultOf(x.items[i])])
      [] OTHER -> Val(x.ty, 0, <<>>)

\* comparison of the discriminants only
via_default_discriminant(x) == x.ty = DefaultOf(x).ty /\ x.n = DefaultOf(x).n

\* mod via_default_eq: self == &Self::default()
via_default_eq(x) == PartialEq(x, DefaultOf(x))

\* #[derive(IsDefault)] on an enum without a marked variant
derive_enum_fallback(x) == via_default_eq(x)

IsDefault(x) ==
    CASE x.ty = "unit" -> unit_impl(x)
      [] x.ty = "PhantomPinned" -> unit_impl(x)
      [] x.ty \in {"bool", "char"} \cup IntTypes -> matches_impl(x, 0)
      [] x.ty \in FloatTypes -> matches_impl_float(x)
      [] x.ty \in StrTypes -> is_empty_impl(x)
      [] x.ty \in PathTypes -> path_impl(x)
      [] x.ty \in CollectionTypes \cup MapTypes -> is_empty_impl(x)
      [] x.ty \in RefTypes -> ref_impl(x)
      [] x.ty \in DerefTypes \cup {"Cow"} -> deref_impl_t(x)
      [] x.ty \in {"Slice", "SliceRef"} -> slice_is_default(x.items)
      [] x.ty = "Array" -> array_is_default(x)
      [] x.ty = "Tuple" -> tuple_impls(x)
      [] x.ty = "Wrapping" -> wrapping_is_default(x)
      [] x.ty = "Duration" -> duration_is_default(x)
      [] x.ty = "Option" -> option_is_default(x)
      [] x.ty = "Cell" -> cell_is_default(x)
      [] x.ty = "RefCell" -> lock_impl(try_borrow(x.n), x.items[1])
      [] x.ty = "Cursor" -> cursor_is_default(x)
      [] x.ty \in OnceTypes -> once_impl(x)
      [] x.ty = "Struct" -> derive_struct(x.items)
      [] x.ty \in EnumTypes ->
            IF EnumDecls[x.ty].marker = "none"
            THEN derive_enum_fallback(x)
            ELSE derive_enum_marked(EnumDecls[x.ty], x)

\* ------------------------------------------------------------------------
\* State
\* ------------------------------------------------------------------------
VARIABLES
    arg,        \* SpecPure: the receiver of the call
    ret,        \* SpecPure: what is_default returned ("none" before the call)
    gen,        \* SpecPure: what `self == &Self::default()` gives for arg
    hist,       \* SpecMut: the mutating operations applied to arg so far;
                \* Spec: "true" once a call on the Weak has returned true, and
                \*       the clones and drops of handles since then
    kind,       \* Spec: type of the shared object the contexts call is_default on
    origin,     \* Spec: how a Weak handle was made: "new" or "downgrade"
    value,      \* Spec: the guarded (or pointed-to) value
    excl,       \* Spec: the context holding the exclusive guard, if any
    shared,     \* Spec: number of shared guards (read guards, Refs) per context
    poisoned,   \* Spec: the lock's poison flag
    strong,     \* Spec: strong handles (Rc/Arc) owned by the contexts
    weak,       \* Spec: weak handles owned by the contexts
    pc,         \* Spec: position of each context
    acq,        \* Spec: what the call's acquisition returned
    obs,        \* Spec: the object's state as the acquisition found it
    res,        \* Spec: what the call in progress evaluated to ("none" before that)
    solo,       \* Spec: nothing but the call's own steps ran since the call began
    prev        \* Spec: what the context's previous call returned, kept as long as
                \*       nothing ran since that call began but the context's own calls

pureVars == <<arg, ret, gen, hist>>
objVars == <<kind, origin, value, excl, shared, poisoned, strong, weak>>
ctxVars == <<pc, acq, obs, res, solo, prev>>
vars == <<arg, ret, gen, hist, kind, origin, value, excl, shared, poisoned, strong, weak,
          pc, acq, obs, res, solo, prev>>

BoolStr(b) == IF b THEN "true" ELSE "false"

\* ------------------------------------------------------------------------
\* SpecPure: inputs
\* ------------------------------------------------------------------------
ElemVals == {U8(0), U8(1)}

PrimVals ==
    {Unit, Val("PhantomPinned", 0, <<>>), Bool(FALSE), Bool(TRUE)}
    \cup {Char(c) : c \in {0, 97, 1114111}}
    \cup {U8(v) : v \in {0, 1, 255}}
    \cup {I16(v) : v \in {-32768, 0, 1, 32767}}
    \cup {Val("f32", i, <<>>) : i \in 1..Len(FloatClasses)}

TupleVals == {Val("Tuple", 0, s) : s \in SeqsOf(ElemVals, MaxTupleArity)}

SeqVals ==
    {Val(ty, 0, s) : ty \in {"SliceRef", "Array"} \cup CollectionTypes \cup MapTypes,
                     s \in SeqsOf(ElemVals, MaxLen)}

StrVals ==
    {Val(ty, 0, s) : ty \in StrTypes \cup PathTypes, s \in SeqsOf({Char(120)}, MaxLen)}

OptionVals == {None} \cup {Some(e) : e \in ElemVals}

PtrVals ==
    {Wrap(ty, e) : ty \in DerefTypes \cup RefTypes \cup {"Cow", "Cell", "Wrapping"},
                   e \in ElemVals}

\* Box, Rc, Arc, &T and &mut T nested in one another, d levels deep
RECURSIVE Nest(_)
Nest(d) ==
    IF d = 0
    THEN ElemVals
    ELSE {Wrap(ty, e) : ty \in DerefTypes \cup RefTypes, e \in Nest(d - 1)}

NestedVals == UNION {Nest(d) : d \in 2..MaxDepth}

RefCellVals == {RefCellOf(f, e) : f \in {-1, 0, 1}, e \in ElemVals}

CursorVals ==
    {CursorOf(p, Val("Vec", 0, s)) : p \in 0..MaxLen, s \in SeqsOf(ElemVals, 1)}

DurationVals == {Val("Duration", n, <<>>) : n \in {0, 1, 1000000000}}

\* Point { x: i16, y: f32 }, Wrapper(u8), Ref<'a>(&'a u8), Unit
FieldVals ==
    {I16(0), I16(1), F32("+0.0"), F32("1.1"), Wrap("Ref", U8(0)), Wrap("Ref", U8(1))}

StructVals == {Val("Struct", 0, f) : f \in SeqsOf(FieldVals, MaxFields)}

EnumVals ==
    {Val(ty, v, <<>>) : ty \in {"A", "B"}, v \in 1..2}
    \cup {Val(ty, 1, <<a, b>>) : ty \in {"M", "D"}, a \in ElemVals, b \in ElemVals}
    \cup {Val(ty, 2, <<c>>) : ty \in {"M", "D"}, c \in ElemVals}
    \cup {Val("C", 1, <<v>>) : v \in {U8(0), U8(1), U8(255)}}
    \cup {Val("C", 2, <<>>)}

Inputs ==
    PrimVals \cup TupleVals \cup SeqVals \cup StrVals \cup OptionVals \cup PtrVals
    \cup NestedVals \cup RefCellVals \cup CursorVals \cup DurationVals \cup StructVals \cup EnumVals

\* A reference occurs in the type of x; references have no Default.
RECURSIVE ContainsRef(_)
ContainsRef(x) ==
    \/ x.ty \in RefTypes
    \/ \E i \in 1..Len(x.items) : ContainsRef(x.items[i])

\* Types that implement both Default and PartialEq, so that the blanket
\* implementation of mod via_default_eq applies to them.
HasDefaultEq(x) ==
    /\ x.ty \in DerefTypes => ~ContainsRef(x)
    /\ x.ty \in {"unit", "PhantomPinned", "bool", "char", "f32", "Option", "String",
              "CString", "OsString", "PathBuf", "SliceRef", "Array", "Tuple",
              "Cell", "RefCell", "Cursor", "Duration", "Wrapping", "C"}
             \cup IntTypes \cup CollectionTypes \cup MapTypes \cup DerefTypes

InitPure ==
    /\ arg \in Inputs
    /\ ret = "none"
    /\ gen = "none"
    /\ hist = {}
    /\ kind = "none"
    /\ origin = "-"
    /\ value = Unit
    /\ excl = {}
    /\ shared = <<>>
    /\ poisoned = FALSE
    /\ strong = 0
    /\ weak = 0
    /\ pc = <<>>
    /\ acq = <<>>
    /\ obs = <<>>
    /\ res = <<>>
    /\ solo = <<>>
    /\ prev = <<>>

\* x.is_default()
Call ==
    /\ ret = "none"
    /\ ret' = BoolStr(IsDefault(arg))
    /\ UNCHANGED <<arg, gen, hist, objVars, ctxVars>>

\* x == &Self::default(), where the type has Default and PartialEq
CallViaDefaultEq ==
    /\ gen = "none"
    /\ HasDefaultEq(arg)
    /\ gen' = IF EqPanics(arg) THEN "panic" ELSE BoolStr(via_default_eq(arg))
    /\ UNCHANGED <<arg, ret, hist, objVars, ctxVars>>

NextPure == Call \/ CallViaDefaultEq

SpecPure == InitPure /\ [][NextPure]_vars

\* ------------------------------------------------------------------------
\* SpecMut: one container, Cursor, OnceCell or OnceLock that is mutated
\* between calls of is_default.
\* ------------------------------------------------------------------------
\* Vec::new() and the like, Cursor::new(buf), OnceCell::new()
MutInputs ==
    {Val(ty, 0, <<>>) : ty \in CollectionTypes \cup MapTypes \cup OnceTypes}
    \cup CursorVals

InitMut ==
    /\ arg \in {x \in MutInputs : x.ty = "Cursor" => x.n = 0}
    /\ ret = "none"
    /\ gen = "none"
    /\ hist = {}
    /\ kind = "none"
    /\ origin = "-"
    /\ value = Unit
    /\ excl = {}
    /\ shared = <<>>
    /\ poisoned = FALSE
    /\ strong = 0
    /\ weak = 0
    /\ pc = <<>>
    /\ acq = <<>>
    /\ obs = <<>>
    /\ res = <<>>
    /\ solo = <<>>
    /\ prev = <<>>

\* items without the element at index i
RemoveAt(items, i) ==
    [j \in 1..(Len(items) - 1) |-> IF j < i THEN items[j] ELSE items[j + 1]]

\* push, push_back, insert: a set or a map keeps one entry per element
Insert(v) ==
    /\ arg.ty \in CollectionTypes \cup MapTypes
    /\ Len(arg.items) < MaxLen
    /\ arg' = IF arg.ty \in UniqueTypes /\ \E i \in 1..Len(arg.items) : arg.items[i] = v
              THEN arg
              ELSE Val(arg.ty, 0, Append(arg.items, v))
    /\ hist' = hist \cup {"insert"}
    /\ ret' = "none"
    /\ UNCHANGED <<gen, objVars, ctxVars>>

\* pop, pop_front, remove
Remove(i) ==
    /\ arg.ty \in CollectionTypes \cup MapTypes
    /\ i \in 1..Len(arg.items)
    /\ arg' = Val(arg.ty, 0, RemoveAt(arg.items, i))
    /\ hist' = hist \cup {"remove"}
    /\ ret' = "none"
    /\ UNCHANGED <<gen, objVars, ctxVars>>

\* Cursor::set_position(n)
SetPosition(n) ==
    /\ arg.ty = "Cursor"
    /\ n # arg.n
    /\ arg' = CursorOf(n, arg.items[1])
    /\ hist' = hist \cup {"set_position"}
    /\ ret' = "none"
    /\ UNCHANGED <<gen, objVars, ctxVars>>

\* OnceCell::set(v), OnceLock::set(v): Ok(()) on an uninitialized cell,
\* Err(v) without effect on an initialized one
OnceSet(v) ==
    /\ arg.ty \in OnceTypes
    /\ arg' = IF Len(arg.items) = 0 THEN Val(arg.ty, 0, <<v>>) ELSE arg
    /\ hist' = hist \cup {IF Len(arg.items) = 0 THEN "set" ELSE "set_err"}
    /\ ret' = "none"
    /\ UNCHANGED <<gen, objVars, ctxVars>>

\* OnceCell::take(), OnceLock::take() on an initialized cell: leaves the
\* cell uninitialized
OnceTake ==
    /\ arg.ty \in OnceTypes
    /\ Len(arg.items) = 1
    /\ arg' = Val(arg.ty, 0, <<>>)
    /\ hist' = hist \cup {"take"}
    /\ ret' = "none"
    /\ UNCHANGED <<gen, objVars, ctxVars>>

NextMut ==
    \/ Call
    \/ \E v \in ElemVals : Insert(v)
    \/ \E i \in 1..MaxLen : Remove(i)
    \/ \E n \in 0..MaxLen : SetPosition(n)
    \/ \E v \in ElemVals : OnceSet(v)
    \/ OnceTake

SpecMut == InitMut /\ [][NextMut]_vars

\* ------------------------------------------------------------------------
\* Spec: contexts calling is_default on one shared Mutex, RwLock, RefCell,
\* rc::Weak, sync::Weak or atomic, while they also lock, store, panic,
\* clone, drop.
\* ------------------------------------------------------------------------
Ctxs == 1..NumCtx

LockKinds == {"Mutex", "RwLock", "RefCell"}
WeakKinds == {"RcWeak", "ArcWeak"}
AtomicKinds == {"AtomicBool", "AtomicI8", "AtomicU8"}

\* Sync types are shared between threads, whose steps interleave.  RefCell
\* and rc::Weak are !Sync: their contexts are scopes of one thread, and a
\* call runs to its return before anything else happens.
SyncKinds == {"Mutex", "RwLock", "ArcWeak"} \cup AtomicKinds

GuardedVals == {U8(0), U8(1)}

\* false and true; 0, 1, MIN and MAX of the integer
AtomicVals(k) ==
    CASE k = "AtomicBool" -> {Bool(FALSE), Bool(TRUE)}
      [] k = "AtomicI8" -> {IntVal("i8", v) : v \in {-128, 0, 1, 127}}
      [] k = "AtomicU8" -> {U8(0), U8(1), U8(255)}

Others(t) == Ctxs \ {t}

RECURSIVE SumShared(_)
SumShared(S) ==
    IF S = {} THEN 0
    ELSE LET u == CHOOSE u \in S : TRUE IN shared[u] + SumShared(S \ {u})

\* Contexts inside is_default that hold the Rc/Arc returned by upgrade()
Temps == {t \in Ctxs : pc[t] # "idle" /\ acq[t] = "Some"}

\* The strong count of the allocation
StrongCount == strong + Cardinality(Temps)

\* What the acquisition of context t found: who held the object, whether
\* the exclusive guard was one that a call of is_default had taken, the
\* poison flag, the strong count and the value.
Snapshot(t) ==
    [exclOther |-> excl \ {t} # {},
     exclSelf |-> excl = {t},
     readOther |-> \E u \in Others(t) : shared[u] > 0,
     readSelf |-> shared[t],
     heldByCall |-> \E u \in excl : pc[u] \in {"tried", "evald"} /\ acq[u] \in {"Ok", "Poisoned"},
     poisoned |-> poisoned, strong |-> StrongCount, val |-> value]

NoObs ==
    [exclOther |-> FALSE, exclSelf |-> FALSE, readOther |-> FALSE,
     readSelf |-> 0, heldByCall |-> FALSE,
     poisoned |-> FALSE, strong |-> 0, val |-> Unit]

Init ==
    /\ arg = Unit
    /\ ret = "none"
    /\ gen = "none"
    /\ hist = {}
    /\ kind \in LockKinds \cup WeakKinds \cup AtomicKinds
    /\ origin \in (IF kind \in WeakKinds THEN {"new", "downgrade"} ELSE {"-"})
    /\ value \in (IF kind \in AtomicKinds THEN AtomicVals(kind)
                  ELSE IF origin = "new" THEN {Unit} ELSE GuardedVals)
    /\ excl = {}
    /\ shared = [t \in Ctxs |-> 0]
    /\ poisoned = FALSE
    /\ strong = (IF origin = "downgrade" THEN 1 ELSE 0)
    /\ weak = (IF kind \in WeakKinds THEN 1 ELSE 0)
    /\ pc = [t \in Ctxs |-> "idle"]
    /\ acq = [t \in Ctxs |-> "-"]
    /\ obs = [t \in Ctxs |-> NoObs]
    /\ res = [t \in Ctxs |-> "none"]
    /\ solo = [t \in Ctxs |-> FALSE]
    /\ prev = [t \in Ctxs |-> "none"]

\* Context t is between calls and free to start something.
Quiet(t) ==
    /\ pc[t] = "idle"
    /\ kind \in SyncKinds \/ \A u \in Ctxs : pc[u] = "idle"

\* A step of context t that is not part of a call disturbs every context.
Disturb ==
    /\ solo' = [u \in Ctxs |-> FALSE]
    /\ prev' = [u \in Ctxs |-> "none"]

\* A step of a call of context t disturbs every other context.
DisturbOthers(t, soloT, prevT) ==
    /\ solo' = [u \in Ctxs |-> IF u = t THEN soloT ELSE FALSE]
    /\ prev' = [u \in Ctxs |-> IF u = t THEN prevT ELSE "none"]

\* ---- what the contexts do besides calling is_default -------------------

\* lock() / write() / borrow_mut() returning the exclusive guard
Lock(t) ==
    /\ kind \in LockKinds
    /\ Quiet(t)
    /\ excl = {}
    /\ \A u \in Ctxs : shared[u] = 0
    /\ excl' = {t}
    /\ Disturb
    /\ UNCHANGED <<pureVars, kind, origin, value, shared, poisoned, strong, weak, pc, acq, obs, res>>

\* drop of the exclusive guard
Unlock(t) ==
    /\ Quiet(t)
    /\ excl = {t}
    /\ excl' = {}
    /\ Disturb
    /\ UNCHANGED <<pureVars, kind, origin, value, shared, poisoned, strong, weak, pc, acq, obs, res>>

\* *guard = v
Store(t, v) ==
    /\ Quiet(t)
    /\ excl = {t}
    /\ v # value
    /\ value' = v
    /\ Disturb
    /\ UNCHANGED <<pureVars, kind, origin, excl, shared, poisoned, strong, weak, pc, acq, obs, res>>

\* a panic while holding the exclusive guard of a Mutex or RwLock: the
\* guard is dropped during unwinding and poisons the lock
Panic(t) ==
    /\ kind \in {"Mutex", "RwLock"}
    /\ Quiet(t)
    /\ excl = {t}
    /\ excl' = {}
    /\ poisoned' = TRUE
    /\ Disturb
    /\ UNCHANGED <<pureVars, kind, origin, value, shared, strong, weak, pc, acq, obs, res>>

\* read() / borrow() returning a shared guard
ReadLock(t) ==
    /\ kind \in {"RwLock", "RefCell"}
    /\ Quiet(t)
    /\ excl = {}
    /\ shared[t] < MaxShared
    /\ shared' = [shared EXCEPT ![t] = @ + 1]
    /\ Disturb
    /\ UNCHANGED <<pureVars, kind, origin, value, excl, poisoned, strong, weak, pc, acq, obs, res>>

\* drop of a shared guard
ReadUnlock(t) ==
    /\ Quiet(t)
    /\ shared[t] > 0
    /\ shared' = [shared EXCEPT ![t] = @ - 1]
    /\ Disturb
    /\ UNCHANGED <<pureVars, kind, origin, value, excl, poisoned, strong, weak, pc, acq, obs, res>>

\* RwLock::write() finding the lock taken: the thread parks as a waiting
\* writer
BlockWrite(t) ==
    /\ kind = "RwLock"
    /\ Quiet(t)
    /\ excl # {t}
    /\ shared[t] = 0
    /\ excl # {} \/ \E u \in Ctxs : shared[u] > 0
    /\ pc' = [pc EXCEPT ![t] = "blocked"]
    /\ Disturb
    /\ UNCHANGED <<pureVars, objVars, acq, obs, res>>

\* the parked writer gets the lock once it is free
WakeWrite(t) ==
    /\ pc[t] = "blocked"
    /\ excl = {}
    /\ \A u \in Ctxs : shared[u] = 0
    /\ excl' = {t}
    /\ pc' = [pc EXCEPT ![t] = "idle"]
    /\ Disturb
    /\ UNCHANGED <<pureVars, kind, origin, value, shared, poisoned, strong, weak, acq, obs, res>>

\* Rc::clone / Arc::clone of a strong handle
CloneStrong(t) ==
    /\ kind \in WeakKinds
    /\ Quiet(t)
    /\ strong >= 1
    /\ strong < MaxStrong
    /\ strong' = strong + 1
    /\ Disturb
    /\ UNCHANGED <<pureVars, kind, origin, value, excl, shared, poisoned, weak, pc, acq, obs, res>>

\* drop(x) of a strong handle
DropStrong(t) ==
    /\ kind \in WeakKinds
    /\ Quiet(t)
    /\ strong >= 1
    /\ strong' = strong - 1
    /\ Disturb
    /\ UNCHANGED <<pureVars, kind, origin, value, excl, shared, poisoned, weak, pc, acq, obs, res>>

\* Weak::clone
CloneWeak(t) ==
    /\ kind \in WeakKinds
    /\ Quiet(t)
    /\ weak < MaxWeak
    /\ weak' = weak + 1
    /\ hist' = IF "true" \in hist THEN hist \cup {"clone_weak"} ELSE hist
    /\ Disturb
    /\ UNCHANGED <<arg, ret, gen, kind, origin, value, excl, shared, poisoned, strong, pc, acq, obs, res>>

\* drop of a weak handle other than the one is_default is called on
DropWeak(t) ==
    /\ kind \in WeakKinds
    /\ Quiet(t)
    /\ weak > 1
    /\ weak' = weak - 1
    /\ hist' = IF "true" \in hist THEN hist \cup {"drop_weak"} ELSE hist
    /\ Disturb
    /\ UNCHANGED <<arg, ret, gen, kind, origin, value, excl, shared, poisoned, strong, pc, acq, obs, res>>

\* ---- is_default on Mutex, RwLock, RefCell -----------------------------

\* try_lock replaced by the blocking lock(): it returns only once the mutex
\* is free
lock_blocking ==
    IF excl # {} THEN {}
    ELSE IF poisoned THEN {"Poisoned"} ELSE {"Ok"}

\* Mutex::try_lock: WouldBlock while locked (by anyone, the caller
\* included); on a poisoned mutex the lock is taken and the guard comes
\* back inside the error.
try_lock ==
    IF excl # {} THEN {"WouldBlock"}
    ELSE IF poisoned THEN {"Poisoned"} ELSE {"Ok"}

\* RwLock::try_read: WouldBlock while write-locked or while a writer is
\* parked (std admits no new reader then); otherwise the read lock is
\* taken, also next to other readers, and on a poisoned lock the guard
\* comes back inside the error.
try_read ==
    IF excl # {} \/ \E u \in Ctxs : pc[u] = "blocked" THEN {"WouldBlock"}
    ELSE IF poisoned THEN {"Poisoned"} ELSE {"Ok"}

\* self.$lock() of lock_impl!(RefCell, try_borrow), lock_impl!(RwLock,
\* try_read), lock_impl!(Mutex, try_lock)
TryOutcomes ==
    CASE kind = "Mutex" -> try_lock
      [] kind = "RwLock" -> try_read
      [] kind = "RefCell" -> {try_borrow(IF excl # {} THEN -1 ELSE SumShared(Ctxs))}

\* the acquisition left a guard in the caller's hands
HoldsGuard(a) == a \in {"Ok", "Poisoned"}

TryAcquire(t) ==
    /\ kind \in LockKinds
    /\ Quiet(t)
    /\ \E o \in TryOutcomes :
        /\ acq' = [acq EXCEPT ![t] = o]
        /\ IF HoldsGuard(o)
           THEN IF kind = "Mutex"
                THEN excl' = {t} /\ shared' = shared
                ELSE shared' = [shared EXCEPT ![t] = @ + 1] /\ excl' = excl
           ELSE UNCHANGED <<excl, shared>>
    /\ obs' = [obs EXCEPT ![t] = Snapshot(t)]
    /\ pc' = [pc EXCEPT ![t] = "tried"]
    /\ DisturbOthers(t, TRUE, prev[t])
    /\ UNCHANGED <<pureVars, kind, origin, value, poisoned, strong, weak, res>>

\* .map_or(false, |v| v.is_default())
MapOr(t) ==
    /\ kind \in LockKinds
    /\ pc[t] = "tried"
    /\ res' = [res EXCEPT ![t] = BoolStr(lock_impl(acq[t], value))]
    /\ pc' = [pc EXCEPT ![t] = "evald"]
    /\ DisturbOthers(t, solo[t], prev[t])
    /\ UNCHANGED <<pureVars, objVars, acq, obs>>

\* the guard released after Ok only, the one inside a poison error kept
DropGuardOkOnly(t) ==
    /\ kind \in LockKinds
    /\ pc[t] = "evald"
    /\ IF acq[t] = "Ok"
       THEN IF kind = "Mutex"
            THEN excl' = {} /\ shared' = shared
            ELSE shared' = [shared EXCEPT ![t] = @ - 1] /\ excl' = excl
       ELSE UNCHANGED <<excl, shared>>
    /\ pc' = [pc EXCEPT ![t] = "idle"]
    /\ acq' = [acq EXCEPT ![t] = "-"]
    /\ obs' = [obs EXCEPT ![t] = NoObs]
    /\ res' = [res EXCEPT ![t] = "none"]
    /\ DisturbOthers(t, FALSE, IF solo[t] THEN res[t] ELSE "none")
    /\ UNCHANGED <<pureVars, kind, origin, value, poisoned, strong, weak>>

\* return with the guard leaked (never released)
DropGuardLeak(t) ==
    /\ kind \in LockKinds
    /\ pc[t] = "evald"
    /\ pc' = [pc EXCEPT ![t] = "idle"]
    /\ acq' = [acq EXCEPT ![t] = "-"]
    /\ obs' = [obs EXCEPT ![t] = NoObs]
    /\ res' = [res EXCEPT ![t] = "none"]
    /\ DisturbOthers(t, FALSE, IF solo[t] THEN res[t] ELSE "none")
    /\ UNCHANGED <<pureVars, objVars>>

\* the guard (or the error that carries it) goes out of scope; return
DropGuard(t) ==
    /\ kind \in LockKinds
    /\ pc[t] = "evald"
    /\ IF HoldsGuard(acq[t])
       THEN IF kind = "Mutex"
            THEN excl' = {} /\ shared' = shared
            ELSE shared' = [shared EXCEPT ![t] = @ - 1] /\ excl' = excl
       ELSE UNCHANGED <<excl, shared>>
    /\ pc' = [pc EXCEPT ![t] = "idle"]
    /\ acq' = [acq EXCEPT ![t] = "-"]
    /\ obs' = [obs EXCEPT ![t] = NoObs]
    /\ res' = [res EXCEPT ![t] = "none"]
    /\ DisturbOthers(t, FALSE, IF solo[t] THEN res[t] ELSE "none")
    /\ UNCHANGED <<pureVars, kind, origin, value, poisoned, strong, weak>>

\* ---- is_default on rc::Weak, sync::Weak -------------------------------

\* Weak::upgrade: None once the strong count is zero (always, for
\* Weak::new()); otherwise the strong count is incremented.
upgrade == IF StrongCount > 0 THEN "Some" ELSE "None"

\* comparison with the handle Default gives, Weak::new()
weak_is_dangling(a) == origin = "new"

\* matches!(self.upgrade(), None)
weak_is_default(a) == a = "None"

Upgrade(t) ==
    /\ kind \in WeakKinds
    /\ Quiet(t)
    /\ acq' = [acq EXCEPT ![t] = upgrade]
    /\ obs' = [obs EXCEPT ![t] = Snapshot(t)]
    /\ pc' = [pc EXCEPT ![t] = "tried"]
    /\ DisturbOthers(t, TRUE, prev[t])
    /\ UNCHANGED <<pureVars, objVars, res>>

Matches(t) ==
    /\ kind \in WeakKinds
    /\ pc[t] = "tried"
    /\ res' = [res EXCEPT ![t] = BoolStr(weak_is_default(acq[t]))]
    /\ pc' = [pc EXCEPT ![t] = "evald"]
    /\ DisturbOthers(t, solo[t], prev[t])
    /\ UNCHANGED <<pureVars, objVars, acq, obs>>

\* return with the upgraded Rc forgotten (mem::forget): its strong count
\* stays
DropTempForget(t) ==
    /\ kind \in WeakKinds
    /\ pc[t] = "evald"
    /\ strong' = IF acq[t] = "Some" /\ strong < MaxStrong THEN strong + 1 ELSE strong
    /\ pc' = [pc EXCEPT ![t] = "idle"]
    /\ acq' = [acq EXCEPT ![t] = "-"]
    /\ obs' = [obs EXCEPT ![t] = NoObs]
    /\ res' = [res EXCEPT ![t] = "none"]
    /\ hist' = IF res[t] = "true" THEN hist \cup {"true"} ELSE hist
    /\ DisturbOthers(t, FALSE, IF solo[t] THEN res[t] ELSE "none")
    /\ UNCHANGED <<arg, ret, gen, kind, origin, value, excl, shared, poisoned, weak>>

\* the temporary Option<Rc<T>> goes out of scope; return
DropTemp(t) ==
    /\ kind \in WeakKinds
    /\ pc[t] = "evald"
    /\ pc' = [pc EXCEPT ![t] = "idle"]
    /\ acq' = [acq EXCEPT ![t] = "-"]
    /\ obs' = [obs EXCEPT ![t] = NoObs]
    /\ res' = [res EXCEPT ![t] = "none"]
    /\ hist' = IF res[t] = "true" THEN hist \cup {"true"} ELSE hist
    /\ DisturbOthers(t, FALSE, IF solo[t] THEN res[t] ELSE "none")
    /\ UNCHANGED <<arg, ret, gen, objVars>>

\* ---- is_default on the atomics ------------------------------------------

\* self.store(v, ..) by a context that shares the atomic
AtomicStore(t, v) ==
    /\ kind \in AtomicKinds
    /\ Quiet(t)
    /\ v \in AtomicVals(kind)
    /\ v # value
    /\ value' = v
    /\ Disturb
    /\ UNCHANGED <<pureVars, kind, origin, excl, shared, poisoned, strong, weak, pc, acq, obs, res>>

\* atomic_impl!($t, $v): matches!(.., $v) on the loaded value, $v being
\* false or the zero of the integer type
atomic_impl(x) == x.n = 0

\* self.swap($v, Ordering::Relaxed): the value is read and reset
AtomicSwap(t) ==
    /\ kind \in AtomicKinds
    /\ Quiet(t)
    /\ acq' = [acq EXCEPT ![t] = "Loaded"]
    /\ obs' = [obs EXCEPT ![t] = Snapshot(t)]
    /\ value' = Val(value.ty, 0, <<>>)
    /\ pc' = [pc EXCEPT ![t] = "tried"]
    /\ DisturbOthers(t, TRUE, prev[t])
    /\ UNCHANGED <<pureVars, kind, origin, excl, shared, poisoned, strong, weak, res>>

\* self.load(Ordering::Relaxed): the loaded value is obs[t].val
AtomicLoad(t) ==
    /\ kind \in AtomicKinds
    /\ Quiet(t)
    /\ acq' = [acq EXCEPT ![t] = "Loaded"]
    /\ obs' = [obs EXCEPT ![t] = Snapshot(t)]
    /\ pc' = [pc EXCEPT ![t] = "tried"]
    /\ DisturbOthers(t, TRUE, prev[t])
    /\ UNCHANGED <<pureVars, objVars, res>>

AtomicMatches(t) ==
    /\ kind \in AtomicKinds
    /\ pc[t] = "tried"
    /\ res' = [res EXCEPT ![t] = BoolStr(atomic_impl(obs[t].val))]
    /\ pc' = [pc EXCEPT ![t] = "evald"]
    /\ DisturbOthers(t, solo[t], prev[t])
    /\ UNCHANGED <<pureVars, objVars, acq, obs>>

AtomicReturn(t) ==
    /\ kind \in AtomicKinds
    /\ pc[t] = "evald"
    /\ pc' = [pc EXCEPT ![t] = "idle"]
    /\ acq' = [acq EXCEPT ![t] = "-"]
    /\ obs' = [obs EXCEPT ![t] = NoObs]
    /\ res' = [res EXCEPT ![t] = "none"]
    /\ DisturbOthers(t, FALSE, IF solo[t] THEN res[t] ELSE "none")
    /\ UNCHANGED <<pureVars, objVars>>

Next ==
    \E t \in Ctxs :
        \/ Lock(t)
        \/ Unlock(t)
        \/ \E v \in GuardedVals : Store(t, v)
        \/ Panic(t)
        \/ ReadLock(t)
        \/ ReadUnlock(t)
        \/ BlockWrite(t)
        \/ WakeWrite(t)
        \/ CloneStrong(t)
        \/ DropStrong(t)
        \/ CloneWeak(t)
        \/ DropWeak(t)
        \/ TryAcquire(t)
        \/ MapOr(t)
        \/ DropGuard(t)
        \/ Upgrade(t)
        \/ Matches(t)
        \/ DropTemp(t)
        \/ \E v \in UNION {AtomicVals(k) : k \in AtomicKinds} : AtomicStore(t, v)
        \/ AtomicLoad(t)
        \/ AtomicMatches(t)
        \/ AtomicReturn(t)

Spec == Init /\ [][Next]_vars

\* ------------------------------------------------------------------------
\* Properties of Spec
\* ------------------------------------------------------------------------
GuardedIsZero(v) == v = U8(0)

\* C1 (as stated): whenever another context holds the Mutex or the RwLock,
\* in read mode or in write mode, the call returns false, whatever the
\* guarded value.
C1_HeldByAnotherReturnsFalse ==
    \A t \in Ctxs :
        (/\ kind \in {"Mutex", "RwLock"}
         /\ pc[t] = "evald"
         /\ obs[t].exclOther \/ obs[t].readOther)
        => res[t] = "false"

\* C1 (amended): whenever another context holds the Mutex, or holds the
\* RwLock in write mode, the call returns false whatever the guarded value,
\* and none of its steps waits; a call whose try_read succeeded next to
\* other readers returns whether the guarded value is zero.
C1_HeldExclusivelyReturnsFalse ==
    \A t \in Ctxs :
        kind \in {"Mutex", "RwLock"} =>
            /\ (pc[t] = "evald" /\ obs[t].exclOther) => res[t] = "false"
            /\ (pc[t] = "tried" /\ obs[t].exclOther) => ENABLED MapOr(t)
            /\ (pc[t] = "idle" /\ excl \ {t} # {}) => ENABLED TryAcquire(t)
            /\ (pc[t] = "evald" /\ obs[t].readOther /\ acq[t] = "Ok")
                    => res[t] = BoolStr(GuardedIsZero(obs[t].val))

\* C1 witness: a call on an RwLock that another context held in write mode
\* around a default value has evaluated.
C1_Witness ==
    \E t \in Ctxs :
        /\ kind = "RwLock"
        /\ pc[t] = "evald"
        /\ obs[t].exclOther
        /\ obs[t].val = U8(0)

\* C2: on Mutex, RwLock and RefCell the call returns true exactly when the
\* acquisition succeeded and the guarded value is zero; when the object was
\* held exclusively or was poisoned the acquisition fails and the call
\* still returns, with false.
C2_TrueIffAcquiredAndDefault ==
    \A t \in Ctxs :
        (kind \in LockKinds /\ pc[t] = "evald") =>
            /\ res[t] = BoolStr(acq[t] = "Ok" /\ GuardedIsZero(obs[t].val))
            /\ (obs[t].exclOther \/ obs[t].exclSelf \/ obs[t].poisoned)
                    => (acq[t] # "Ok" /\ res[t] = "false")
            /\ ENABLED DropGuard(t)

\* C2 witness: a call on a poisoned Mutex around a default value has
\* evaluated.
C2_Witness ==
    \E t \in Ctxs :
        /\ kind = "Mutex"
        /\ pc[t] = "evald"
        /\ acq[t] = "Poisoned"
        /\ obs[t].val = U8(0)

\* C3: on Mutex and RwLock every step of a call is enabled in every state,
\* whoever holds the lock (another context, the caller itself, a writer
\* that never comes back), and a call is three steps long.
C3_NeverWaits ==
    \A t \in Ctxs :
        kind \in {"Mutex", "RwLock"} =>
            /\ pc[t] = "idle" => ENABLED TryAcquire(t)
            /\ pc[t] = "tried" => ENABLED MapOr(t)
            /\ pc[t] = "evald" => ENABLED DropGuard(t)
            /\ pc[t] \in {"idle", "tried", "evald", "blocked"}

\* C3 witness: a context that itself holds the Mutex has called is_default
\* on it and the call has evaluated.
C3_Witness ==
    \E t \in Ctxs :
        /\ kind = "Mutex"
        /\ pc[t] = "evald"
        /\ obs[t].exclSelf
        /\ excl = {t}

\* C4: a Weak handle reports false when its upgrade found a strong owner
\* alive and true when it found none, whatever the value; a handle made by
\* Weak::new() reports true.
C4_WeakDefaultIffNoStrongOwner ==
    \A t \in Ctxs :
        (kind \in WeakKinds /\ pc[t] = "evald") =>
            /\ res[t] = BoolStr(obs[t].strong = 0)
            /\ origin = "new" => res[t] = "true"

\* C4 witness: a handle downgraded from a value with default content has
\* reported after the last strong owner was dropped.
C4_Witness ==
    \E t \in Ctxs :
        /\ kind \in WeakKinds
        /\ origin = "downgrade"
        /\ value = U8(0)
        /\ pc[t] = "evald"
        /\ obs[t].strong = 0
        /\ res[t] = "true"

\* C6: a call that follows a call of the same context, with nothing in
\* between but the two calls' own steps, evaluates to what the first
\* returned.
C6_Idempotent ==
    \A t \in Ctxs :
        (pc[t] = "evald" /\ solo[t] /\ prev[t] # "none") => res[t] = prev[t]

\* C6 witness: the second of two successive calls on a Mutex around a
\* default value has evaluated, the first having returned true.
C6_Witness ==
    \E t \in Ctxs :
        /\ kind = "Mutex"
        /\ pc[t] = "evald"
        /\ solo[t]
        /\ prev[t] = "true"

\* ------------------------------------------------------------------------
\* Properties of SpecPure
\* ------------------------------------------------------------------------

\* C5 (as stated): for every value of a type with Default and PartialEq,
\* the tailored is_default returns the boolean that `x == &Self::default()`
\* returns (values on which the comparison panics are left out).
C5_TailoredEqualsViaDefaultEq ==
    (ret # "none" /\ gen \in {"true", "false"} /\ arg.ty # "C") => ret = gen

\* The value of a field or component is the zero of its type.
IsZero(f) == f \in {U8(0), I16(0), F32("+0.0"), Wrap("Ref", U8(0))}

\* C7: a derived struct is default exactly when every field holds the zero
\* of its type (i16, f32 or &u8 fields); one non-zero field makes it
\* non-default whatever the others hold, and a struct without fields is
\* default.
C7_StructIsAndOfFields ==
    (arg.ty = "Struct" /\ ret # "none") =>
        ret = BoolStr(\A i \in 1..Len(arg.items) : IsZero(arg.items[i]))

\* C7 witness: Point { x: 0, y: 1.1 } and a reference field to 0 has been
\* checked.
C7_Witness ==
    /\ arg = Val("Struct", 0, <<I16(0), F32("1.1"), Wrap("Ref", U8(0))>>)
    /\ ret = "false"

\* C8: a derived enum with a variant marked #[is_default] or #[default] is
\* default exactly when the marked variant is active and all its fields are
\* zero; the two markers give the same result.
C8_EnumMarkedVariant ==
    (arg.ty \in {"A", "B", "M", "D"} /\ ret # "none") =>
        ret = BoolStr(/\ arg.n = EnumDecls[arg.ty].marked
                      /\ \A i \in 1..Len(arg.items) : IsZero(arg.items[i]))

\* C8 witness: the #[default] variant with its second field non-zero has
\* been checked.
C8_Witness ==
    /\ arg = Val("D", 1, <<U8(0), U8(1)>>)
    /\ ret = "false"

\* C9: a derived enum without a marked variant, with Default giving X(0)
\* and a derived PartialEq, is default exactly when it is X(0).
C9_EnumFallback ==
    (arg.ty = "C" /\ ret # "none") =>
        ret = BoolStr(arg.n = 1 /\ arg.items = <<U8(0)>>)

\* C9 witness: X(1), the default's variant with another field value, has
\* been checked.
C9_Witness ==
    /\ arg = Val("C", 1, <<U8(1)>>)
    /\ ret = "false"

\* C10: a tuple of arity 0 to 12 is default exactly when all its components
\* are zero.
C10_TupleIsAndOfComponents ==
    (arg.ty = "Tuple" /\ ret # "none") =>
        /\ Len(arg.items) <= MaxTupleArity
        /\ ret = BoolStr(\A i \in 1..Len(arg.items) : IsZero(arg.items[i]))

\* C10 witness: the tuple of arity 12 whose last component alone is
\* non-zero has been checked.
C10_Witness ==
    /\ arg = Val("Tuple", 0, [i \in 1..MaxTupleArity |-> IF i = MaxTupleArity THEN U8(1) ELSE U8(0)])
    /\ ret = "false"

\* The value at the bottom of a chain of Box, Rc, Arc, &T and &mut T.
RECURSIVE Innermost(_)
Innermost(x) ==
    IF x.ty \in DerefTypes \cup RefTypes
    THEN Innermost(x.items[1])
    ELSE x

RECURSIVE Depth(_)
Depth(x) ==
    IF x.ty \in DerefTypes \cup RefTypes
    THEN 1 + Depth(x.items[1])
    ELSE 0

\* C11: a chain of Box, Rc, Arc, &T and &mut T of any depth around a u8 is
\* default exactly when the u8 at the bottom is 0.
C11_WrappersDelegate ==
    (arg.ty \in DerefTypes \cup RefTypes /\ ret # "none") =>
        ret = BoolStr(Innermost(arg) = U8(0))

\* C11 witness: a chain at least two wrappers deep, a reference among them,
\* around 1u8 has been checked.
C11_Witness ==
    /\ arg.ty \in DerefTypes
    /\ Depth(arg) >= 2
    /\ ContainsRef(arg)
    /\ Innermost(arg) = U8(1)
    /\ ret = "false"

\* C12: a slice or an array of u8 is default exactly when it is empty or
\* every element is 0, so one non-zero element at any index makes it
\* non-default; an array reports what the slice of its elements reports.
C12_SliceAllElementsDefault ==
    (arg.ty \in {"SliceRef", "Array"} /\ ret # "none") =>
        /\ ret = BoolStr(\/ Len(arg.items) = 0
                         \/ \A i \in 1..Len(arg.items) : arg.items[i] = U8(0))
        /\ arg.ty = "Array" => ret = BoolStr(IsDefault(Val("SliceRef", 0, arg.items)))

\* C12 witness: the array [0, 0, 1], non-zero at its last index only, has
\* been checked.
C12_Witness ==
    /\ arg = Val("Array", 0, <<U8(0), U8(0), U8(1)>>)
    /\ ret = "false"

\* C13: a Vec, VecDeque, LinkedList, BinaryHeap, set or map is default
\* exactly when it holds no element, whatever was inserted and removed
\* before and whatever the elements it holds are.
C13_ContainerDefaultIffEmpty ==
    (arg.ty \in CollectionTypes \cup MapTypes /\ ret # "none") =>
        ret = BoolStr(Len(arg.items) = 0)

\* C13 witness: after insertions and removals a Vec holds the single
\* element 0 and has been reported non-default.
C13_Witness ==
    /\ arg = Val("Vec", 0, <<U8(0)>>)
    /\ {"insert", "remove"} \subseteq hist
    /\ ret = "false"

\* C14 (as stated): a float is default only when it is +0.0; -0.0, NaN, the
\* infinities, MIN, MAX and 1.0 are all reported non-default.
C14_OnlyPositiveZeroIsDefault ==
    (arg.ty \in FloatTypes /\ ret # "none") =>
        ret = BoolStr(FloatClasses[arg.n] = "+0.0")

\* C14 (amended): a float is default exactly when it is one of the two
\* zeros, +0.0 or -0.0; NaN, the infinities, MIN, MAX, 1.0 and 1.1 are
\* reported non-default.
C14_BothZerosAreDefault ==
    (arg.ty \in FloatTypes /\ ret # "none") =>
        ret = BoolStr(FloatClasses[arg.n] \in {"+0.0", "-0.0"})

\* C14 witness: -0.0 has been checked and reported default.
C14_Witness ==
    /\ arg = F32("-0.0")
    /\ ret = "true"

\* C15 (as stated): a OnceCell or OnceLock is default exactly while it has
\* never been written by a successful set.
C15_DefaultIffNeverWritten ==
    (arg.ty \in OnceTypes /\ ret # "none") =>
        ret = BoolStr("set" \notin hist)

\* C15 (amended): a OnceCell or OnceLock is default exactly while it is
\* uninitialized: a fresh cell is default, a cell that was set and not
\* taken since is non-default whatever value it was set to, and a cell
\* emptied by take is default again.
C15_DefaultIffUninitialized ==
    (arg.ty \in OnceTypes /\ ret # "none") =>
        /\ ret = BoolStr(Len(arg.items) = 0)
        /\ hist = {} => ret = "true"
        /\ ("set" \in hist /\ "take" \notin hist) => ret = "false"

\* C15 witness: a OnceCell set to 0, the default of u8, and never taken has
\* been reported non-default.
C15_Witness ==
    /\ arg = Val("OnceCell", 0, <<U8(0)>>)
    /\ "set" \in hist
    /\ "take" \notin hist
    /\ ret = "false"

C17_RefCellBorrowedMutablyIsFalse ==
    \A t \in Ctxs :
        (kind = "RefCell" /\ pc[t] # "idle") =>
            /\ acq[t] \in {"Ok", "BorrowError"}
            /\ pc[t] = "tried" => ENABLED MapOr(t)
            /\ pc[t] = "evald" =>
                /\ res[t] = IF obs[t].exclOther \/ obs[t].exclSelf
                            THEN "false"
                            ELSE BoolStr(GuardedIsZero(obs[t].val))
                /\ ENABLED DropGuard(t)

\* C17 witness: a call on a RefCell around 0 has evaluated to false while
\* another scope held a RefMut.
C17_Witness ==
    \E t \in Ctxs :
        /\ kind = "RefCell"
        /\ pc[t] = "evald"
        /\ obs[t].exclOther
        /\ obs[t].val = U8(0)
        /\ res[t] = "false"

\* C18: on an atomic the call returns true exactly when the value its load
\* read is zero (false for AtomicBool), so 1, MIN and MAX read false, also
\* when a writer has stored another value since the load; and no step of
\* the call changes the stored value.
C18_AtomicLoadOnly ==
    /\ [](\A t \in Ctxs :
            (kind \in AtomicKinds /\ pc[t] = "evald") =>
                res[t] = BoolStr(obs[t].val \in {Bool(FALSE), IntVal("i8", 0), U8(0)}))
    /\ [][\A t \in Ctxs :
            (kind \in AtomicKinds /\ pc'[t] # pc[t]) => value' = value]_vars

\* C18 witness: a call on an AtomicI8 loaded MAX and evaluated to false
\* after a writer had stored 0 over it.
C18_Witness ==
    \E t \in Ctxs :
        /\ kind = "AtomicI8"
        /\ pc[t] = "evald"
        /\ obs[t].val = IntVal("i8", 127)
        /\ value = IntVal("i8", 0)
        /\ res[t] = "false"

\* Context t takes a step of a call of is_default.
CallStep(t) == pc[t] # "blocked" /\ pc'[t] \notin {"blocked", pc[t]}

\* C19: on Mutex, RwLock and RefCell no step of a call changes the guarded
\* value, the poison flag or a guard of another context, and when nothing
\* else ran during the call its return leaves the exclusive holder, the
\* shared guards, the poison flag and the value as the call found them: a
\* lock found free is free again.
C19_CallLeavesLockAsFound ==
    [][\A t \in Ctxs :
        (kind \in LockKinds /\ CallStep(t)) =>
            /\ value' = value
            /\ poisoned' = poisoned
            /\ \A u \in Others(t) : shared'[u] = shared[u] /\ (u \in excl' <=> u \in excl)
            /\ (pc'[t] = "idle" /\ solo[t]) =>
                /\ (excl' = {t}) = obs[t].exclSelf
                /\ (excl' \ {t} # {}) = obs[t].exclOther
                /\ shared'[t] = obs[t].readSelf
                /\ (\E u \in Others(t) : shared'[u] > 0) = obs[t].readOther
                /\ poisoned' = obs[t].poisoned
                /\ value' = obs[t].val]_vars

\* C19 witness: a call on a free, poisoned Mutex, which took the guard out
\* of the poison error, has returned and the Mutex is free.
C19_Witness ==
    \E t \in Ctxs :
        /\ kind = "Mutex"
        /\ poisoned
        /\ pc[t] = "idle"
        /\ prev[t] = "false"
        /\ excl = {}

\* C20 (as stated): on a Mutex around a default value that is not poisoned
\* and is held, if at all, only by the guard of another call of is_default,
\* every call returns true.
C20_ConcurrentChecksAllTrue ==
    \A t \in Ctxs :
        (/\ kind = "Mutex"
         /\ pc[t] = "evald"
         /\ obs[t].val = U8(0)
         /\ ~obs[t].poisoned
         /\ ~(obs[t].exclOther \/ obs[t].exclSelf) \/ obs[t].heldByCall)
        => res[t] = "true"

\* C20 (amended): under the same conditions a call returns true when its
\* try_lock found the Mutex free and false when its try_lock fell into the
\* moment another call of is_default held the guard.
C20_ConcurrentCheckFalseUnderContention ==
    \A t \in Ctxs :
        (/\ kind = "Mutex"
         /\ pc[t] = "evald"
         /\ obs[t].val = U8(0)
         /\ ~obs[t].poisoned
         /\ ~(obs[t].exclOther \/ obs[t].exclSelf) \/ obs[t].heldByCall)
        => res[t] = BoolStr(~obs[t].heldByCall)

\* C20 witness: a call on a Mutex around 0 has evaluated to false because
\* a concurrent call of is_default held the guard at its try_lock.
C20_Witness ==
    \E t \in Ctxs :
        /\ kind = "Mutex"
        /\ pc[t] = "evald"
        /\ obs[t].val = U8(0)
        /\ ~obs[t].poisoned
        /\ obs[t].heldByCall
        /\ res[t] = "false"

\* C21: once a call on a Weak handle has returned true, every later call
\* evaluates to true and no strong owner exists, whatever handles are
\* cloned and dropped in between; and no step of a call changes the number
\* of strong or weak handles the contexts own, the Rc or Arc that upgrade
\* returned being dropped at the return, where a call that ran alone leaves
\* the strong count as its upgrade found it.
C21_WeakStaysDefault ==
    /\ []((kind \in WeakKinds /\ "true" \in hist) =>
            /\ StrongCount = 0
            /\ \A t \in Ctxs : pc[t] = "evald" => res[t] = "true")
    /\ [][\A t \in Ctxs :
            (kind \in WeakKinds /\ CallStep(t)) =>
                /\ strong' = strong
                /\ weak' = weak
                /\ pc'[t] = "idle" => t \notin Temps'
                /\ (pc'[t] = "idle" /\ solo[t]) => StrongCount' = obs[t].strong]_vars

\* C21 witness: a handle downgraded from a live value has returned true,
\* weak handles have been cloned and dropped since, and a later call has
\* evaluated to true.
C21_Witness ==
    \E t \in Ctxs :
        /\ kind \in WeakKinds
        /\ origin = "downgrade"
        /\ {"true", "clone_weak", "drop_weak"} \subseteq hist
        /\ pc[t] = "evald"
        /\ res[t] = "true"

====
